---- MODULE Spec2Model ----
(***************************************************************************)
(* QMServer: the module fetch / install / metadata / dynamic-load pipeline *)
(* run by lifespan() in main.py at startup, the installer of               *)
(* module_manager.py, the in-memory registry installed_modules, the module *)
(* query endpoint, the repository fetcher of module_manager.py and the     *)
(* authentication endpoints of main.py and api/router over the storage     *)
(* module.                                                                 *)
(*                                                                         *)
(* The disk is modelled by the install directory ./modules/sqlite (whether *)
(* it exists and which entries it holds).  The remote branch of the module *)
(* is a small tree fixed for a behaviour.  File contents are tokens: the   *)
(* token of main.py says how the entry point behaves when executed, the    *)
(* token of module.json names a descriptor.                                *)
(*                                                                         *)
(* Behaviour of the collaborators the installer calls, as observed with    *)
(* git 2.39 and CPython's shutil:                                          *)
(*  - GitPython runs every git command with the repository's working tree  *)
(*    as current directory, so `git worktree add <path>` with a relative   *)
(*    <path> creates the worktree relative to the repository, not to the   *)
(*    process: the directory the installer lists is then the empty one it  *)
(*    made itself;                                                         *)
(*  - a git worktree holds a file named .git at its root;                  *)
(*  - `git worktree remove --force <path>` deletes the directory;          *)
(*  - shutil.copy2 into a directory that does not exist raises             *)
(*    FileNotFoundError, shutil.copytree creates the missing parents;      *)
(*  - shutil.rmtree of a missing directory raises FileNotFoundError.       *)
(***************************************************************************)
EXTENDS Naturals, Sequences, FiniteSets, TLC

VARIABLES
    pc,                  \* position of lifespan(): start, install, metadata, load, serving, aborted
    configured,          \* MODULES_REPO_URL and MODULES_REPO_TOKEN are both set
    repo_path_abs,       \* the path the fetcher returns is absolute
    branchTree,          \* the module's tree on the remote branch: name -> content token
    installDir,          \* ./modules/sqlite: [exists, files: name -> content token]
    installed_modules,   \* main.installed_modules: module name -> ModuleInfo
    sqlite_module_funcs, \* main.sqlite_module_funcs: "None" or the token of the loaded module
    response,            \* the answer to the last module query
    runs,                \* startup sequences begun so far
    stages,              \* log: the pipeline stages performed in the current run, in order
    netIO,               \* log: network operations attempted in the current run
    fetchResult,         \* log: what the fetcher returned in the current run
    installResult,       \* log: how install_module_from_repository ended in the current run
    installFault,        \* log: the fault injected into that call
    executed,            \* log: the entry point was executed in the current run
    initCalled,          \* log: init_database was called in the current run
    bound,               \* log: sqlite_module_funcs was assigned in the current run
    prev,                \* log: how the previous startup run ended and what it left
    modules_root,        \* ./modules (MODULES_ROOT_DIR) exists
    temp_repo_clone,     \* ./modules/temp_repo_clone: "absent", "valid" or "corrupt"
    fetcher,             \* log: the last call of clone_or_pull_modules_repository
    fetches,             \* calls of clone_or_pull_modules_repository so far
    db,                  \* the admin records kept by the storage module: username -> record
    issued,              \* the access tokens issued and not yet expired: [sub, owner]
    authResp             \* the answer to the last request of an authentication endpoint

fetcherVars == <<modules_root, temp_repo_clone, fetcher, fetches>>

apiVars == <<db, issued, authResp>>

vars == <<pc, configured, repo_path_abs, branchTree, installDir, installed_modules,
          sqlite_module_funcs, response, runs, stages, netIO, fetchResult,
          installResult, installFault, executed, initCalled, bound, prev,
          fetcherVars, apiVars>>

(***************************************************************************)
(* Bounds                                                                  *)
(***************************************************************************)
MaxRuns == 2

MaxFetches == 2

(***************************************************************************)
(* Names, contents, descriptors                                            *)
(***************************************************************************)
sqlite_module_name == "sqlite"

\* os.path.isdir(s) of an entry of the checked-out tree
IsDir(n) == n = "lib"

\* How a main.py behaves when loaded: ok (defines init_database), ok_ver (also
\* defines __version__), noinit (no init_database), execraise (raises at top
\* level), initraise (init_database raises).
EntryKinds == {"ok", "ok_ver", "noinit", "execraise", "initraise"}

\* Descriptor files: full and versionOnly parse; malformed does not.
DescIds == {"full", "versionOnly", "malformed"}

ParseOK(id) == id # "malformed"

\* json.load of a descriptor that parses
DescFields(id) ==
    IF id = "full"
    THEN [name |-> "SQLite", version |-> "2.0.0", is_free |-> TRUE,
          is_default |-> TRUE, description |-> "x"]
    ELSE [version |-> "1.2.3"]

\* dict.get(key, default)
Get(d, k, def) == IF k \in DOMAIN d THEN d[k] ELSE def

\* getattr(module, '__version__', '0.0.0')
ModuleVersion(kind) == IF kind = "ok_ver" THEN "3.1.4" ELSE "0.0.0"

NoFiles == [n \in {} |-> "data"]

AbsentDir == [exists |-> FALSE, files |-> NoFiles]

\* The trees a module branch may hold.
BranchTrees ==
    {[n \in {"main.py", "module.json", "lib"} |->
        IF n = "main.py" THEN e ELSE IF n = "module.json" THEN d ELSE "data"]
        : e \in EntryKinds, d \in DescIds}
    \cup
    {[n \in {"main.py", "module.json"} |-> IF n = "main.py" THEN e ELSE d]
        : e \in {"ok", "noinit"}, d \in {"full", "malformed"}}
    \cup
    {[n \in {"main.py", "lib"} |-> IF n = "main.py" THEN e ELSE "data"]
        : e \in {"ok", "ok_ver"}}

\* The install directories an earlier run or an operator may have left.
PriorDirs ==
    {AbsentDir,
     [exists |-> TRUE, files |-> [n \in {"main.py", "old.txt"} |->
                                    IF n = "main.py" THEN "ok" ELSE "data"]],
     [exists |-> TRUE, files |-> [n \in {"old.txt"} |-> "data"]]}

\* The orders in which os.listdir may return the entries S
Perms(S) ==
    {s \in [1..Cardinality(S) -> S] : \A i, j \in 1..Cardinality(S) : s[i] = s[j] => i = j}

(***************************************************************************)
(* module_manager.install_module_from_repository                           *)
(***************************************************************************)
\* The faults one call may meet: the removal of an existing install directory
\* fails (line 46), Repo() or origin.fetch fails (lines 49-51), the branch is
\* missing (line 56), worktree add fails (line 66), the copy of the at-th entry
\* listed fails (lines 76, 78), worktree remove fails at line 82 and again at
\* line 101 (persistent) or only at line 82 (transient).
InstallFaults(dest, n) ==
    {[kind |-> k, at |-> 0] :
        k \in {"none", "git_open", "no_branch", "worktree_add",
               "wt_remove_persistent", "wt_remove_transient"}}
    \cup {[kind |-> "rmtree_dest", at |-> 0] : x \in {d \in {dest} : d.exists}}
    \cup {[kind |-> "copy", at |-> i] : i \in 1..n}

\* What `git worktree add temp_checkout_dir module_name` checks out: the branch's
\* tree and the worktree's own .git file.
WorktreeTree(tree) ==
    [n \in DOMAIN tree \cup {".git"} |-> IF n = ".git" THEN "gitlink" ELSE tree[n]]

\* os.listdir(temp_checkout_dir) can return: with an absolute repo_path the
\* worktree's entries in any order; with a relative one git made the worktree
\* elsewhere and the directory listed is the empty one os.makedirs created.
Listings(tree, abs) ==
    IF abs THEN Perms(DOMAIN WorktreeTree(tree)) ELSE {<<>>}

Put(files, n, c) == [m \in DOMAIN files \cup {n} |-> IF m = n THEN c ELSE files[m]]

\* shutil.copytree(s, d, dirs_exist_ok=True): creates d and its missing parents.
copytree(dest, n, c) == [ok |-> TRUE, dest |-> [exists |-> TRUE, files |-> Put(dest.files, n, c)]]

\* shutil.copy2(s, d): fails when the directory of d does not exist.
copy2(dest, n, c) ==
    IF dest.exists
    THEN [ok |-> TRUE, dest |-> [exists |-> TRUE, files |-> Put(dest.files, n, c)]]
    ELSE [ok |-> FALSE, dest |-> dest]

\* The loop over os.listdir(temp_checkout_dir), from entry i on; it stops at the
\* first entry whose copy raises.
RECURSIVE CopyLoop(_, _, _, _, _)
CopyLoop(listing, i, wt, dest, failAt) ==
    IF i > Len(listing) THEN [ok |-> TRUE, dest |-> dest]
    ELSE IF failAt = i THEN [ok |-> FALSE, dest |-> dest]
    ELSE LET n == listing[i]
             r == IF IsDir(n) THEN copytree(dest, n, wt[n]) ELSE copy2(dest, n, wt[n])
         IN IF r.ok THEN CopyLoop(listing, i + 1, wt, r.dest, failAt) ELSE r

\* Lines 81-83 and the finally block, after a copy loop that ended normally.
\* remove ok: git deletes the worktree directory; with an absolute path that is
\* temp_checkout_dir, so shutil.rmtree (line 83) raises FileNotFoundError, which
\* `except Exception` turns into False; with a relative path temp_checkout_dir is
\* still there, rmtree succeeds and the function returns True.
\* remove fails (GitCommandError): False is pending and the finally block finds
\* temp_checkout_dir; if its own remove fails too it deletes the directory and
\* False is returned, if its remove succeeds on an absolute path the directory
\* is gone and its shutil.rmtree (line 104) raises out of the function.
Cleanup(abs, fault) ==
    IF fault.kind = "wt_remove_persistent" THEN "false"
    ELSE IF fault.kind = "wt_remove_transient" THEN (IF abs THEN "raise" ELSE "false")
    ELSE IF abs THEN "false" ELSE "true"

\* The whole call: [result |-> "true" | "false" | "raise", dest |-> install dir after].
install_module_from_repository(dest, tree, abs, listing, fault) ==
    IF fault.kind = "rmtree_dest"
    THEN \* line 46, outside the try: the error propagates
         [result |-> "raise", dest |-> dest]
    ELSE IF fault.kind \in {"git_open", "no_branch", "worktree_add"}
    THEN \* lines 49-66 raise or line 87 returns; a temp_checkout_dir made at
         \* line 61 is no worktree, so the finally block's remove fails and its
         \* rmtree deletes the directory
         [result |-> "false", dest |-> AbsentDir]
    ELSE LET copied == CopyLoop(listing, 1, WorktreeTree(tree), AbsentDir,
                                IF fault.kind = "copy" THEN fault.at ELSE 0)
         IN IF ~copied.ok
            THEN \* except: return False; finally: temp_checkout_dir is a worktree,
                 \* remove deletes it and shutil.rmtree (line 104) raises
                 [result |-> "raise", dest |-> copied.dest]
            ELSE [result |-> Cleanup(abs, fault), dest |-> copied.dest]

(***************************************************************************)
(* main.py: the registry, lifespan() and the module query endpoint         *)
(***************************************************************************)
None == "None"

NoModules == [m \in {} |-> 0]

NoResponse == [path |-> "none", status |-> 0]

\* ModuleInfo(...) built from module.json, lines 203-209
ModuleInfoFromDescriptor(d) ==
    [name        |-> Get(d, "name", sqlite_module_name),
     version     |-> Get(d, "version", "0.0.0"),
     is_free     |-> Get(d, "is_free", FALSE),
     is_default  |-> Get(d, "is_default", FALSE),
     description |-> Get(d, "description", "No description provided.")]

\* ModuleInfo(...) built after a dynamic load when the registry has no entry,
\* lines 248-257
ModuleInfoFromLoadedModule(kind) ==
    [name        |-> "SQLite",
     version     |-> ModuleVersion(kind),
     is_free     |-> TRUE,
     is_default  |-> TRUE,
     description |-> "Default SQLite database module for QMServer. Provides local data storage capabilities."]

\* RegistryAfterLoad marking the entry it finds: a second load does not leave
\* the entry as the first made it.
RegistryAfterLoad_MarksReload(reg, kind) ==
    IF sqlite_module_name \notin DOMAIN reg
    THEN [m \in {sqlite_module_name} |-> ModuleInfoFromLoadedModule(kind)]
    ELSE [reg EXCEPT ![sqlite_module_name].version = "reloaded"]

\* lines 247-260: create the entry, or overwrite the version of the one there
RegistryAfterLoad(reg, kind) ==
    IF sqlite_module_name \notin DOMAIN reg
    THEN [m \in {sqlite_module_name} |-> ModuleInfoFromLoadedModule(kind)]
    ELSE [reg EXCEPT ![sqlite_module_name].version = ModuleVersion(kind)]

\* The state of a fresh process: module globals of main.py, lines 103 and 106
FreshLogs ==
    /\ stages = <<>>
    /\ netIO = 0
    /\ fetchResult = "none"
    /\ installResult = "none"
    /\ installFault = [kind |-> "none", at |-> 0]
    /\ executed = FALSE
    /\ initCalled = FALSE
    /\ bound = FALSE

\* No startup run has ended yet.
NoPrev == [ended |-> "none", how |-> "none"]

\* The fetcher of module_manager.py has not been called: ./modules exists and
\* holds no working copy.
NoFetch == [result |-> "none"]

FetcherIdle ==
    /\ modules_root = TRUE
    /\ temp_repo_clone = "absent"
    /\ fetcher = NoFetch
    /\ fetches = 0

\* The storage module holds no admin record, no token has been issued and no
\* request has been answered.
NoAuthResponse ==
    [ep |-> "none", case |-> "none", status |-> 0, detail |-> "", called |-> FALSE,
     created |-> FALSE, changed |-> FALSE,
     token |-> [kind |-> "none", sub |-> "None"], owner |-> 0, acted |-> 0]

ApiIdle ==
    /\ db = {}
    /\ issued = {}
    /\ authResp = NoAuthResponse

Init ==
    /\ pc = "start"
    /\ configured \in BOOLEAN
    /\ repo_path_abs \in BOOLEAN
    /\ branchTree \in BranchTrees
    /\ installDir \in PriorDirs
    /\ installed_modules = NoModules
    /\ sqlite_module_funcs = None
    /\ response = NoResponse
    /\ runs = 1
    /\ FreshLogs
    /\ prev = NoPrev
    /\ FetcherIdle
    /\ ApiIdle

\* SkipNotConfigured with the configuration test lost: the fetcher is called anyway.
SkipNotConfigured_Fetches ==
    /\ pc = "start"
    /\ ~configured
    /\ pc' = "load"
    /\ stages' = Append(stages, "fetch")
    /\ netIO' = netIO + 1
    /\ UNCHANGED <<configured, repo_path_abs, branchTree, installDir, installed_modules,
                   sqlite_module_funcs, response, runs, fetchResult,
                   installResult, installFault, executed, initCalled, bound>>
    /\ UNCHANGED <<prev, fetcherVars, apiVars>>

\* lines 181-182: the URL or the token is unset; cloning is skipped and control
\* falls through to the dynamic-load section
SkipNotConfigured ==
    /\ pc = "start"
    /\ ~configured
    /\ pc' = "load"
    /\ UNCHANGED <<configured, repo_path_abs, branchTree, installDir, installed_modules,
                   sqlite_module_funcs, response, runs, stages, netIO, fetchResult,
                   installResult, installFault, executed, initCalled, bound>>
    /\ UNCHANGED <<prev, fetcherVars, apiVars>>

\* What the fetcher hands back: a local path, or the "no path" sentinel.
FetchOutcomes == {"path", "no path"}

\* FetchStage with the result of the fetcher ignored: install follows a failed fetch.
FetchStage_IgnoresFailure ==
    /\ pc = "start"
    /\ configured
    /\ \E r \in FetchOutcomes :
        /\ fetchResult' = r
        /\ pc' = "install"
    /\ stages' = Append(stages, "fetch")
    /\ netIO' = netIO + 1
    /\ UNCHANGED <<configured, repo_path_abs, branchTree, installDir, installed_modules,
                   sqlite_module_funcs, response, runs, installResult, installFault,
                   executed, initCalled, bound>>
    /\ UNCHANGED <<prev, fetcherVars, apiVars>>

\* lines 183-190: call the fetcher and branch on its result
FetchStage ==
    /\ pc = "start"
    /\ configured
    /\ \E r \in FetchOutcomes :
        /\ fetchResult' = r
        /\ pc' = IF r = "no path" THEN "load" ELSE "install"
    /\ stages' = Append(stages, "fetch")
    /\ netIO' = netIO + 1
    /\ UNCHANGED <<configured, repo_path_abs, branchTree, installDir, installed_modules,
                   sqlite_module_funcs, response, runs, installResult, installFault,
                   executed, initCalled, bound>>
    /\ UNCHANGED <<prev, fetcherVars, apiVars>>

\* InstallStage with the test of install_success lost: the metadata stage
\* follows a failed install too.
InstallStage_IgnoresResult ==
    /\ pc = "install"
    /\ \E listing \in Listings(branchTree, repo_path_abs) :
       \E fault \in InstallFaults(installDir, Len(listing)) :
         LET r == install_module_from_repository(installDir, branchTree, repo_path_abs,
                                                 listing, fault)
         IN /\ installDir' = r.dest
            /\ installResult' = r.result
            /\ installFault' = fault
            /\ netIO' = IF fault.kind = "rmtree_dest" THEN netIO ELSE netIO + 1
            /\ pc' = IF r.result = "raise" THEN "aborted" ELSE "metadata"
    /\ stages' = Append(stages, "install")
    /\ UNCHANGED <<configured, repo_path_abs, branchTree, installed_modules,
                   sqlite_module_funcs, response, runs, fetchResult, executed,
                   initCalled, bound>>
    /\ UNCHANGED <<prev, fetcherVars, apiVars>>

\* lines 191-193 and 221-222: call the installer and branch on its result; an
\* exception of the installer is not caught and leaves lifespan()
InstallStage ==
    /\ pc = "install"
    /\ \E listing \in Listings(branchTree, repo_path_abs) :
       \E fault \in InstallFaults(installDir, Len(listing)) :
         LET r == install_module_from_repository(installDir, branchTree, repo_path_abs,
                                                 listing, fault)
         IN /\ installDir' = r.dest
            /\ installResult' = r.result
            /\ installFault' = fault
            /\ netIO' = IF fault.kind = "rmtree_dest" THEN netIO ELSE netIO + 1
            /\ pc' = IF r.result = "raise" THEN "aborted"
                     ELSE IF r.result = "true" THEN "metadata" ELSE "load"
    /\ stages' = Append(stages, "install")
    /\ UNCHANGED <<configured, repo_path_abs, branchTree, installed_modules,
                   sqlite_module_funcs, response, runs, fetchResult, executed,
                   initCalled, bound>>
    /\ UNCHANGED <<prev, fetcherVars, apiVars>>

\* lines 199-201: module.json exists in the install directory and json.load parses it
HasDescriptor(dir) ==
    /\ dir.exists
    /\ "module.json" \in DOMAIN dir.files
    /\ ParseOK(dir.files["module.json"])

\* lines 194-220: read module.json of the install directory
MetadataStage ==
    /\ pc = "metadata"
    /\ installed_modules' =
         IF HasDescriptor(installDir)
         THEN [m \in DOMAIN installed_modules \cup {sqlite_module_name} |->
                 IF m = sqlite_module_name
                 THEN ModuleInfoFromDescriptor(DescFields(installDir.files["module.json"]))
                 ELSE installed_modules[m]]
         ELSE installed_modules
    /\ stages' = Append(stages, "metadata")
    /\ pc' = "load"
    /\ UNCHANGED <<configured, repo_path_abs, branchTree, installDir,
                   sqlite_module_funcs, response, runs, netIO, fetchResult,
                   installResult, installFault, executed, initCalled, bound>>
    /\ UNCHANGED <<prev, fetcherVars, apiVars>>

\* The token of main.py in the install directory, "missing" when there is none
EntryPoint(dir) ==
    IF "main.py" \in DOMAIN dir.files THEN dir.files["main.py"] ELSE "missing"

\* LoadStage with the module bound only once its init hook has been found: a
\* module without init_database is loaded but not bound.
LoadStage_BindsAfterHookTest ==
    /\ pc = "load"
    /\ pc' = "serving"
    /\ IF installDir.exists
       THEN LET kind == EntryPoint(installDir)
            IN /\ stages' = Append(stages, "load")
               /\ executed' = (kind # "missing")
               /\ IF kind \in {"missing", "execraise"}
                  THEN UNCHANGED <<sqlite_module_funcs, bound, initCalled, installed_modules>>
                  ELSE /\ sqlite_module_funcs' = IF kind = "noinit" THEN sqlite_module_funcs ELSE kind
                       /\ bound' = (kind # "noinit")
                       /\ initCalled' = (kind # "noinit")
                       /\ installed_modules' =
                            IF kind = "initraise"
                            THEN installed_modules
                            ELSE RegistryAfterLoad(installed_modules, kind)
       ELSE UNCHANGED <<stages, executed, sqlite_module_funcs, bound, initCalled,
                        installed_modules>>
    /\ UNCHANGED <<configured, repo_path_abs, branchTree, installDir, response, runs,
                   netIO, fetchResult, installResult, installFault>>
    /\ UNCHANGED <<prev, fetcherVars, apiVars>>

\* lines 226-275: load and initialise whatever the install directory holds, then
\* yield to the server
LoadStage ==
    /\ pc = "load"
    /\ pc' = "serving"
    /\ IF installDir.exists
       THEN LET kind == EntryPoint(installDir)
            IN /\ stages' = Append(stages, "load")
               /\ executed' = (kind # "missing")
               /\ IF kind \in {"missing", "execraise"}
                  THEN \* exec_module raises: caught at line 267
                       UNCHANGED <<sqlite_module_funcs, bound, initCalled, installed_modules>>
                  ELSE /\ sqlite_module_funcs' = kind
                       /\ bound' = TRUE
                       /\ initCalled' = (kind # "noinit")
                       /\ installed_modules' =
                            IF kind = "initraise"
                            THEN installed_modules
                            ELSE RegistryAfterLoad(installed_modules, kind)
       ELSE UNCHANGED <<stages, executed, sqlite_module_funcs, bound, initCalled,
                        installed_modules>>
    /\ UNCHANGED <<configured, repo_path_abs, branchTree, installDir, response, runs,
                   netIO, fetchResult, installResult, installFault>>
    /\ UNCHANGED <<prev, fetcherVars, apiVars>>

(***************************************************************************)
(* The storage module (a plugin outside this repository) as the endpoints   *)
(* use it: admin records looked up by username or email, created, renamed,  *)
(* and a password check against the stored hash.                            *)
(***************************************************************************)
Usernames == {"alice", "bob"}

Emails == {"alice@x", "bob@x"}

Passwords == {"pw", "bad"}

\* email.split("@")[0]
EmailPrefix(e) == IF e = "alice@x" THEN "alice" ELSE "bob"

\* The stored form of a password; verify_password(hash, plain) compares.
HashOf(p) == <<"hash", p>>

verify_password(password_hash, plain) == password_hash = HashOf(plain)

\* What a lookup returns when there is no such record (Python's None)
NoAdmin == [id |-> 0, username |-> None, email |-> None, password_hash |-> << >>]

get_admin_by_username(store, u) ==
    IF \E r \in store : r.username = u
    THEN CHOOSE r \in store : r.username = u
    ELSE NoAdmin

get_admin_by_email(store, e) ==
    IF \E r \in store : r.email = e
    THEN CHOOSE r \in store : r.email = e
    ELSE NoAdmin

\* A new record gets the next row id; no record is ever deleted.
create_admin(store, u, p, e) ==
    store \cup {[id |-> Cardinality(store) + 1, username |-> u, email |-> e,
                 password_hash |-> HashOf(p)]}

update_admin_username(store, old, new) ==
    {IF r.username = old THEN [r EXCEPT !.username = new] ELSE r : r \in store}

\* A module whose init_database ran, or that has none, answers; one whose
\* init_database raised has no database and its functions raise.
StoreUsable(m) == m \in {"ok", "ok_ver", "noinit"}

(***************************************************************************)
(* Access tokens                                                           *)
(***************************************************************************)
\* No token in an answer
NoToken == [kind |-> "none", sub |-> None]

\* create_access_token, main.py lines 345-362: a signed token naming its subject
create_access_token(sub) == [kind |-> "valid", sub |-> sub]

\* What a request can carry where a token is expected: nothing, a string that
\* does not decode, a token past its expiry, a signed token without "sub", or
\* a token the server issued.
BadTokens ==
    {[kind |-> k, sub |-> None] : k \in {"missing", "malformed", "expired", "nosub"}}

RequestTokens == BadTokens \cup {create_access_token(t.sub) : t \in issued}

\* What a client can present, with the account that obtained it (0: nobody)
Credentials ==
    {[token |-> b, owner |-> 0] : b \in BadTokens} \cup
    {[token |-> create_access_token(t.sub), owner |-> t.owner] : t \in issued}

\* jwt.decode and payload.get("sub"): the subject, or None when the request
\* is to be answered with credentials_exception
DecodeSubject(token) == IF token.kind = "valid" THEN token.sub ELSE None

(***************************************************************************)
(* The authentication endpoints                                            *)
(***************************************************************************)
\* The module object the routers of api/router read (admin.sqlite_module_funcs):
\* the one binding that lifespan sets.
RouterFuncs == sqlite_module_funcs

Answer(ep, case, status, detail, called, created, changed, token) ==
    [ep |-> ep, case |-> case, status |-> status, detail |-> detail, called |-> called,
     created |-> created, changed |-> changed, token |-> token, owner |-> 0, acted |-> 0]

\* raise HTTPException(status_code=500, detail="SQLite module not loaded.")
NotLoaded(ep, case) ==
    Answer(ep, case, 500, "SQLite module not loaded.", FALSE, FALSE, FALSE, NoToken)

\* An exception of a storage function is not caught by the handler.
Unhandled(ep, case) ==
    Answer(ep, case, 500, "Internal Server Error", TRUE, FALSE, FALSE, NoToken)

\* credentials_exception and the 401 of the login handlers
Unauthorized(ep, case, called) ==
    Answer(ep, case, 401, "Unauthorized", called, FALSE, FALSE, NoToken)

ApiFrame ==
    UNCHANGED <<pc, configured, repo_path_abs, branchTree, installDir,
                installed_modules, sqlite_module_funcs, response, runs, stages,
                netIO, fetchResult, installResult, installFault, executed,
                initCalled, bound, prev, fetcherVars>>

\* The registration of username u with email e, after the handler has found
\* the module bound as funcs.
Registration(ep, funcs, u, e, createOk, checkExisting) ==
    LET case == IF get_admin_by_username(db, u) # NoAdmin THEN "dup" ELSE "new"
    IN IF funcs = None
       THEN /\ authResp' = NotLoaded(ep, case)
            /\ db' = db
       ELSE IF ~StoreUsable(funcs)
       THEN /\ authResp' = Unhandled(ep, case)
            /\ db' = db
       ELSE IF checkExisting /\ case = "dup"
       THEN /\ authResp' = Answer(ep, case, 400, "already registered", TRUE, FALSE,
                                  FALSE, NoToken)
            /\ db' = db
       ELSE IF ~createOk
       THEN /\ authResp' = Answer(ep, case, 500, "Failed to register", TRUE, TRUE,
                                  FALSE, NoToken)
            /\ db' = db
       ELSE /\ db' = create_admin(db, u, "pw", e)
            /\ authResp' = Answer(ep, case, 200, "", TRUE, TRUE, db' # db, NoToken)

\* register_admin with the lookup of the username left out.
register_admin_NoLookup ==
    /\ pc = "serving"
    /\ \E u \in Usernames, e \in Emails \cup {None}, createOk \in BOOLEAN :
         Registration("register_admin", sqlite_module_funcs, u, e, createOk, FALSE)
    /\ UNCHANGED issued
    /\ ApiFrame

\* POST /admin/register, main.py lines 283-310 (and the same handler in
\* api/router/admin.py, lines 150-173)
register_admin ==
    /\ pc = "serving"
    /\ \E u \in Usernames, e \in Emails \cup {None}, createOk \in BOOLEAN :
         Registration("register_admin", sqlite_module_funcs, u, e, createOk, TRUE)
    /\ UNCHANGED issued
    /\ ApiFrame

\* register with the lookup of the username left out.
register_NoLookup ==
    /\ pc = "serving"
    /\ \E e \in Emails, username \in Usernames \cup {None}, createOk \in BOOLEAN :
         LET u == IF username # None THEN username ELSE EmailPrefix(e)
         IN Registration("register", RouterFuncs, u, e, createOk, FALSE)
    /\ UNCHANGED issued
    /\ ApiFrame

\* POST /auth/register, api/router/auth.py lines 48-88: the username defaults
\* to the prefix of the email
register ==
    /\ pc = "serving"
    /\ \E e \in Emails, username \in Usernames \cup {None}, createOk \in BOOLEAN :
         LET u == IF username # None THEN username ELSE EmailPrefix(e)
         IN Registration("register", RouterFuncs, u, e, createOk, TRUE)
    /\ UNCHANGED issued
    /\ ApiFrame

\* The check of a password against the record found, and the token issued.
Authentication(ep, funcs, admin_data, password, verify) ==
    LET case == IF admin_data = NoAdmin THEN "unknown"
                ELSE IF ~verify_password(admin_data.password_hash, password) THEN "badpw"
                ELSE "ok"
    IN IF funcs = None
       THEN /\ authResp' = NotLoaded(ep, case)
            /\ issued' = issued
       ELSE IF ~StoreUsable(funcs)
       THEN /\ authResp' = Unhandled(ep, case)
            /\ issued' = issued
       ELSE IF case = "unknown" \/ (verify /\ case = "badpw")
       THEN /\ authResp' = Unauthorized(ep, case, TRUE)
            /\ issued' = issued
       ELSE /\ authResp' = Answer(ep, case, 200, "", TRUE, FALSE, FALSE,
                                  create_access_token(admin_data.username))
            /\ issued' = issued \cup {[sub |-> admin_data.username, owner |-> admin_data.id]}

\* login_admin with the password check left out.
login_admin_NoVerify ==
    /\ pc = "serving"
    /\ \E u \in Usernames, p \in Passwords :
         Authentication("login_admin", sqlite_module_funcs,
                        get_admin_by_username(db, u), p, FALSE)
    /\ UNCHANGED db
    /\ ApiFrame

\* POST /admin/login, main.py lines 312-342 (and api/router/admin.py, lines 175-204)
login_admin ==
    /\ pc = "serving"
    /\ \E u \in Usernames, p \in Passwords :
         Authentication("login_admin", sqlite_module_funcs,
                        get_admin_by_username(db, u), p, TRUE)
    /\ UNCHANGED db
    /\ ApiFrame

\* POST /auth/login, api/router/auth.py lines 91-146: by email when the module
\* offers get_admin_by_email, else or if not found by the prefix of the email
login ==
    /\ pc = "serving"
    /\ \E e \in Emails, p \in Passwords, has_get_admin_by_email \in BOOLEAN :
         LET by_email == IF has_get_admin_by_email THEN get_admin_by_email(db, e) ELSE NoAdmin
             admin_data == IF by_email # NoAdmin THEN by_email
                           ELSE get_admin_by_username(db, EmailPrefix(e))
         IN Authentication("login", RouterFuncs, admin_data, p, TRUE)
    /\ UNCHANGED db
    /\ ApiFrame

\* How a token-protected request stands: the kind of a token that does not
\* yield a subject, "norecord" when the subject has no admin record, else "ok".
TokenCase(token) ==
    IF DecodeSubject(token) = None THEN token.kind
    ELSE IF get_admin_by_username(db, token.sub) = NoAdmin THEN "norecord"
    ELSE "ok"

\* The admin the token stands for: the token is decoded first, then the module
\* is tested, then the record is looked up.
CurrentAdmin(ep, funcs, token) ==
    LET case == TokenCase(token)
    IN IF DecodeSubject(token) = None THEN Unauthorized(ep, case, FALSE)
       ELSE IF funcs = None THEN NotLoaded(ep, case)
       ELSE IF ~StoreUsable(funcs) THEN Unhandled(ep, case)
       ELSE IF case = "norecord" THEN Unauthorized(ep, case, TRUE)
       ELSE [Answer(ep, case, 200, "", TRUE, FALSE, FALSE, NoToken)
                EXCEPT !.acted = get_admin_by_username(db, token.sub).id]

\* GET /admin/me through get_current_admin, main.py lines 364-425 (and
\* api/router/admin.py, lines 96-130 and 206-216)
get_current_admin ==
    /\ pc = "serving"
    /\ \E cred \in Credentials :
         authResp' = [CurrentAdmin("get_current_admin", sqlite_module_funcs, cred.token)
                         EXCEPT !.owner = cred.owner]
    /\ UNCHANGED <<db, issued>>
    /\ ApiFrame

\* GET /auth/me, api/router/auth.py lines 149-193
get_current_user ==
    /\ pc = "serving"
    /\ \E cred \in Credentials :
         authResp' = [CurrentAdmin("get_current_user", RouterFuncs, cred.token)
                         EXCEPT !.owner = cred.owner]
    /\ UNCHANGED <<db, issued>>
    /\ ApiFrame

\* PATCH /auth/profile, api/router/auth.py lines 196-283
update_profile ==
    /\ pc = "serving"
    /\ \E cred \in Credentials, username \in Usernames, updateOk \in BOOLEAN :
         LET ep == "update_profile"
             token == cred.token
             who == [CurrentAdmin(ep, RouterFuncs, token) EXCEPT !.owner = cred.owner]
             taken == username # token.sub /\ get_admin_by_username(db, username) # NoAdmin
         IN IF who.status # 200
            THEN /\ authResp' = who
                 /\ UNCHANGED <<db, issued>>
            ELSE IF taken
            THEN /\ authResp' = [who EXCEPT !.status = 400,
                                            !.detail = "Username already taken"]
                 /\ UNCHANGED <<db, issued>>
            ELSE IF username # token.sub /\ ~updateOk
            THEN /\ authResp' = [who EXCEPT !.status = 500,
                                            !.detail = "Failed to update username"]
                 /\ UNCHANGED <<db, issued>>
            ELSE /\ db' = IF username # token.sub
                          THEN update_admin_username(db, token.sub, username)
                          ELSE db
                 /\ issued' = issued \cup {[sub |-> username, owner |-> who.acted]}
                 /\ authResp' = [who EXCEPT !.changed = (db' # db),
                                            !.token = create_access_token(username)]
    /\ ApiFrame

ModuleNames == {"sqlite", "mysql"}

\* get_module_details that enters the module it was asked for into the registry.
get_module_details_Registers ==
    /\ pc = "serving"
    /\ \E module_name \in ModuleNames :
         /\ response' = [path |-> module_name, status |-> 200,
                         body |-> ModuleInfoFromLoadedModule("ok")]
         /\ installed_modules' =
              [m \in DOMAIN installed_modules \cup {module_name} |->
                 IF m \in DOMAIN installed_modules THEN installed_modules[m]
                 ELSE ModuleInfoFromLoadedModule("ok")]
    /\ UNCHANGED <<pc, configured, repo_path_abs, branchTree, installDir,
                   sqlite_module_funcs, runs, stages, netIO,
                   fetchResult, installResult, installFault, executed, initCalled, bound>>
    /\ UNCHANGED <<prev, fetcherVars, apiVars>>

\* GET /modules/{module_name}, lines 438-453
get_module_details ==
    /\ pc = "serving"
    /\ \E module_name \in ModuleNames :
         response' = IF module_name \notin DOMAIN installed_modules
                     THEN [path |-> module_name, status |-> 404]
                     ELSE [path |-> module_name, status |-> 200,
                           body |-> installed_modules[module_name]]
    /\ UNCHANGED <<pc, configured, repo_path_abs, branchTree, installDir,
                   installed_modules, sqlite_module_funcs, runs, stages, netIO,
                   fetchResult, installResult, installFault, executed, initCalled, bound>>
    /\ UNCHANGED <<prev, fetcherVars, apiVars>>

\* The logs of a run start empty.
ResetLogs ==
    /\ stages' = <<>>
    /\ netIO' = 0
    /\ fetchResult' = "none"
    /\ installResult' = "none"
    /\ installFault' = [kind |-> "none", at |-> 0]
    /\ executed' = FALSE
    /\ initCalled' = FALSE
    /\ bound' = FALSE

\* What a run that has ended leaves behind, kept when the next one starts.
EndOfRun(how) ==
    [ended  |-> pc,
     how    |-> how,
     fresh  |-> (prev.ended = "none" \/ prev.how = "restart"),
     fetch  |-> fetchResult,
     faulty |-> installFault.kind # "none",
     dir    |-> installDir,
     reg    |-> installed_modules]

\* The process ends (after serving, or because startup raised) and a new one
\* starts: the module globals are fresh, the disk is as it was left.
Restart ==
    /\ pc \in {"serving", "aborted"}
    /\ runs < MaxRuns
    /\ runs' = runs + 1
    /\ pc' = "start"
    /\ installed_modules' = NoModules
    /\ sqlite_module_funcs' = None
    /\ response' = NoResponse
    /\ ResetLogs
    /\ UNCHANGED <<configured, repo_path_abs, branchTree, installDir>>
    /\ prev' = EndOfRun("restart")
    /\ UNCHANGED <<fetcherVars, apiVars>>

\* The application is started again in the same process (lifespan() entered a
\* second time): the module globals keep their values.
Rerun ==
    /\ pc = "serving"
    /\ runs < MaxRuns
    /\ runs' = runs + 1
    /\ pc' = "start"
    /\ ResetLogs
    /\ UNCHANGED <<configured, repo_path_abs, branchTree, installDir,
                   installed_modules, sqlite_module_funcs, response>>
    /\ prev' = EndOfRun("rerun")
    /\ UNCHANGED <<fetcherVars, apiVars>>

Next ==
    \/ SkipNotConfigured
    \/ FetchStage
    \/ InstallStage
    \/ MetadataStage
    \/ LoadStage
    \/ get_module_details
    \/ Restart
    \/ Rerun

Spec == Init /\ [][Next]_vars

\* One life of the server process over a small choice of remote trees and of
\* install directories left on disk, with every endpoint.
ApiTrees == {t \in BranchTrees : DOMAIN t = {"main.py", "lib"} /\ t["main.py"] = "ok_ver"}

ApiDirs ==
    {AbsentDir} \cup
    {[exists |-> TRUE, files |-> [n \in {"main.py"} |-> k]]
        : k \in {"noinit", "execraise", "initraise"}}

InitApi ==
    /\ pc = "start"
    /\ configured \in BOOLEAN
    /\ repo_path_abs \in (IF configured THEN BOOLEAN ELSE {TRUE})
    /\ branchTree \in ApiTrees
    /\ installDir \in ApiDirs
    /\ installed_modules = NoModules
    /\ sqlite_module_funcs = None
    /\ response = NoResponse
    /\ runs = 1
    /\ FreshLogs
    /\ prev = NoPrev
    /\ FetcherIdle
    /\ ApiIdle

NextApi ==
    \/ SkipNotConfigured
    \/ FetchStage
    \/ InstallStage
    \/ MetadataStage
    \/ LoadStage
    \/ get_module_details
    \/ register_admin
    \/ register
    \/ login_admin
    \/ login
    \/ get_current_admin
    \/ get_current_user
    \/ update_profile

SpecApi == InitApi /\ [][NextApi]_vars

(***************************************************************************)
(* module_manager.py: clone_or_pull_modules_repository                     *)
(***************************************************************************)
\* What can go wrong in a call: os.makedirs(MODULES_ROOT_DIR) fails (only when
\* the directory is missing), git fails (GitCommandError: network,
\* authentication, ref not found), or another exception is raised in the try
\* block (filesystem error while cloning).
FetcherFaults(root) ==
    {"none", "git", "other"} \cup (IF root THEN {} ELSE {"makedirs"})

\* The fetcher with the test of line 18 inverted.
clone_or_pull_modules_repository_TestInverted(root, clone, fault) ==
    IF ~root /\ fault = "makedirs"
    THEN [result |-> "raise", branch |-> "none", root |-> FALSE, clone |-> clone]
    ELSE IF clone = "absent"
         THEN [result |-> "False", branch |-> "pull", root |-> TRUE, clone |-> clone]
         ELSE [result |-> IF fault = "none" THEN "True" ELSE "False",
               branch |-> "clone", root |-> TRUE, clone |-> clone]

\* lines 9-35.  root: ./modules exists; clone: state of ./modules/temp_repo_clone.
\* Lines 11-12 run before the try block, so a failure of os.makedirs leaves the
\* function as an exception.  Repo() of a directory that is not a repository
\* raises InvalidGitRepositoryError, caught at line 32.  A failed git clone
\* removes the directory it created; another failure while cloning leaves
\* what was written.
clone_or_pull_modules_repository(root, clone, fault) ==
    IF ~root /\ fault = "makedirs"
    THEN [result |-> "raise", branch |-> "none", root |-> FALSE, clone |-> clone]
    ELSE IF clone # "absent"
         THEN [result |-> IF clone = "valid" /\ fault = "none" THEN "True" ELSE "False",
               branch |-> "pull", root |-> TRUE, clone |-> clone]
         ELSE [result |-> IF fault = "none" THEN "True" ELSE "False",
               branch |-> "clone", root |-> TRUE,
               clone  |-> CASE fault = "none"  -> "valid"
                            [] fault = "other" -> "corrupt"
                            [] OTHER           -> "absent"]

\* MODULES_REPO_URL values: an https URL, and one of another scheme
RepoUrls ==
    {[scheme |-> sc, userinfo |-> << >>, rest |-> "git.example/modules.git"]
        : sc \in {"https", "ssh"}}

\* MODULES_REPO_TOKEN values
RepoTokens == {"tokenA", "tokenB"}

OtherToken(t) == IF t = "tokenA" THEN "tokenB" ELSE "tokenA"

NoUrl == [scheme |-> "", userinfo |-> << >>, rest |-> ""]

\* line 15: repo_url.replace("https://", f"https://oauth2:{repo_token}@")
AuthRepoUrl(repo_url, repo_token) ==
    IF repo_url.scheme = "https"
    THEN [repo_url EXCEPT !.userinfo = <<"oauth2", repo_token>>]
    ELSE repo_url

\* GitPython's masking of the user-info part of a URL on a command line
\* (git.util.remove_password_if_present, in the releases that have it)
MaskedUrl(url) ==
    IF url.userinfo = << >> THEN url ELSE [url EXCEPT !.userinfo = <<"*****", "*****">>]

\* One printed line: its fixed text, the URL formatted into it and, for the
\* two error lines, the text of the exception: the git command line it names
\* and the URL on that command line.  git itself prints URLs without their
\* user-info part, so its stderr adds nothing.
Line(text, url, cmdline, arg) ==
    [text |-> text, url |-> url, cmdline |-> cmdline, arg |-> arg]

\* str(e) of the GitCommandError of a failed clone: the command line carries
\* the URL that was passed to Repo.clone_from, masked or not by the library.
CloneErrorLine(repo_url, auth_repo_url, masks) ==
    Line("Error cloning/pulling repository", repo_url, "git clone -v --",
         IF masks THEN MaskedUrl(auth_repo_url) ELSE auth_repo_url)

\* Everything lines 9-35 print in one call; masks: the installed GitPython
\* masks credentials in the command line of its exceptions.
FetcherOutput(repo_url, repo_token, root, clone, fault, masks) ==
    LET auth_repo_url == AuthRepoUrl(repo_url, repo_token)
        ok  == Line("Repository updated successfully.", repo_url, "", NoUrl)
        unexpected == Line("An unexpected error occurred during repository operation",
                           NoUrl, "", NoUrl)
    IN IF ~root /\ fault = "makedirs" THEN << >>
       ELSE IF clone = "corrupt" THEN <<unexpected>>
       ELSE IF clone = "valid"
       THEN <<Line("Pulling latest changes for", repo_url, "", NoUrl)>> \o
            CASE fault = "none" -> <<ok>>
              [] fault = "git"  -> <<Line("Error cloning/pulling repository", repo_url,
                                          "git pull -v -- origin", NoUrl)>>
              [] OTHER          -> <<unexpected>>
       ELSE <<Line("Cloning into ./modules/temp_repo_clone", repo_url, "", NoUrl)>> \o
            CASE fault = "none" -> <<ok>>
              [] fault = "git"  -> <<CloneErrorLine(repo_url, auth_repo_url, masks)>>
              [] OTHER          -> <<unexpected>>

\* A call of the fetcher, with the state of the disk it found.  printed is
\* what the call prints, printed_other what the same call prints when only the
\* token is the other one.
CallFetcher ==
    /\ fetches < MaxFetches
    /\ fetches' = fetches + 1
    /\ \E fault \in FetcherFaults(modules_root), repo_url \in RepoUrls,
          repo_token \in RepoTokens, masks \in BOOLEAN :
         LET r == clone_or_pull_modules_repository(modules_root, temp_repo_clone, fault)
         IN /\ modules_root' = r.root
            /\ temp_repo_clone' = r.clone
            /\ fetcher' = [result |-> r.result, branch |-> r.branch, fault |-> fault,
                           had |-> temp_repo_clone # "absent", dest |-> installDir,
                           repo_url |-> repo_url, repo_token |-> repo_token,
                           masks |-> masks,
                           printed |-> FetcherOutput(repo_url, repo_token, modules_root,
                                                     temp_repo_clone, fault, masks),
                           printed_other |-> FetcherOutput(repo_url, OtherToken(repo_token),
                                                           modules_root, temp_repo_clone,
                                                           fault, masks)]
    /\ UNCHANGED <<pc, configured, repo_path_abs, branchTree, installDir,
                   installed_modules, sqlite_module_funcs, response, runs, stages,
                   netIO, fetchResult, installResult, installFault, executed,
                   initCalled, bound, prev, apiVars>>

\* The states the fetcher can be called in: ./modules may be missing (then so
\* are the working copy and the install directory), the working copy may be
\* missing, a repository, or the remains of a failed clone.
InitFetch ==
    /\ pc = "start"
    /\ configured = TRUE
    /\ repo_path_abs \in BOOLEAN
    /\ branchTree \in BranchTrees
    /\ modules_root \in BOOLEAN
    /\ temp_repo_clone \in (IF modules_root THEN {"absent", "valid", "corrupt"} ELSE {"absent"})
    /\ installDir \in (IF modules_root THEN PriorDirs ELSE {AbsentDir})
    /\ installed_modules = NoModules
    /\ sqlite_module_funcs = None
    /\ response = NoResponse
    /\ runs = 1
    /\ FreshLogs
    /\ prev = NoPrev
    /\ fetcher = NoFetch
    /\ fetches = 0
    /\ ApiIdle

NextFetch == CallFetcher

SpecFetch == InitFetch /\ [][NextFetch]_vars

(***************************************************************************)
(* Properties                                                              *)
(***************************************************************************)
Range(seq) == {seq[i] : i \in 1..Len(seq)}

\* C1 as stated: once the fetch of a configured run has failed, the run ends
\* with the fetch as its only stage, whatever the disk held: no install, no
\* metadata load, no dynamic load, entry point not executed, init hook not
\* called, no storage-module binding set.
C1_FetchFailedEndsPipeline ==
    (fetchResult = "no path" /\ pc = "serving") =>
        /\ stages = <<"fetch">>
        /\ ~executed /\ ~initCalled /\ ~bound

\* C1 amended: once the fetch of a configured run has failed, install and
\* metadata load are not performed in that run; the dynamic load is attempted
\* exactly when an install directory left by an earlier run exists, and when
\* none exists the entry point is not executed, the init hook is not called
\* and no storage-module binding is set in that run.
C1_FetchFailedLoadsOnlyPriorInstall ==
    fetchResult = "no path" =>
        /\ "install" \notin Range(stages)
        /\ "metadata" \notin Range(stages)
        /\ installResult = "none"
        /\ pc = "serving" => ("load" \in Range(stages) <=> installDir.exists)
        /\ ~installDir.exists => (~executed /\ ~initCalled /\ ~bound)

\* C1's case: a run whose fetch failed has finished, and it loaded the module
\* that an earlier install left on disk.
C1_Witness ==
    /\ fetchResult = "no path"
    /\ pc = "serving"
    /\ installDir.exists
    /\ stages = <<"fetch", "load">>
    /\ bound

\* C2: after install_module_from_repository has reported failure, what is left
\* in the install directory is not dynamically loaded in that run: no load
\* stage, entry point not executed, no binding set.
C2_FailedInstallNeverLoaded ==
    installResult = "false" =>
        /\ "load" \notin Range(stages)
        /\ ~executed
        /\ ~bound

\* C3: when the startup sequence has finished, the registry holds exactly one
\* entry, that of the default module "sqlite".
C3_ExactlyOneEntryAfterStartup ==
    pc = "serving" => DOMAIN installed_modules = {sqlite_module_name}

\* C4: with the repository not configured, a finished startup leaves a registry
\* entry for "sqlite" and GET /modules/sqlite answers with that record, not 404.
C4_NotConfiguredEntryServed ==
    (~configured /\ pc = "serving" /\ response.path = sqlite_module_name) =>
        /\ sqlite_module_name \in DOMAIN installed_modules
        /\ response.status = 200

\* C5 as stated: with the repository not configured, a run attempts no network
\* operation and performs no pipeline stage at all.
C5_NotConfiguredRunsNoStage ==
    ~configured => (netIO = 0 /\ stages = <<>>)

\* C5 amended: with the repository not configured, a run attempts no clone,
\* pull or fetch and performs neither the install nor the metadata stage; the
\* dynamic load is the only stage it can perform, and it performs it exactly
\* when an install directory already exists.
C5_NotConfiguredNoNetworkNoInstall ==
    ~configured =>
        /\ netIO = 0
        /\ Range(stages) \subseteq {"load"}
        /\ fetchResult = "none" /\ installResult = "none"
        /\ pc = "serving" => ("load" \in Range(stages) <=> installDir.exists)

\* C5's case: an unconfigured run has finished, having loaded the module found
\* on disk without any network operation.
C5_Witness ==
    /\ ~configured
    /\ pc = "serving"
    /\ stages = <<"load">>
    /\ netIO = 0

\* C6: whatever fails in the fetch, install, metadata or dynamic-load stage,
\* lifespan() reaches its yield: startup is never aborted by an exception.
C6_StartupNeverAborts ==
    pc # "aborted"

\* C7: install_module_from_repository never raises to its caller.
C7_InstallNeverRaises ==
    installResult # "raise"

\* C8: an install that meets no I/O or git fault returns True, and an install
\* that returns True leaves an install directory holding exactly the source
\* tree, for every tree, listing order and prior install directory.
C8_CompletedInstallEqualsSource ==
    /\ (installResult # "none" /\ installFault.kind = "none") => installResult = "true"
    /\ installResult = "true" => (installDir.exists /\ installDir.files = branchTree)

\* C9: when the module installed by the run has a descriptor that parses, the
\* registry entry at the end of startup equals the descriptor field for field,
\* omitted fields taking the defaults.
C9_RegistryEqualsDescriptor ==
    (pc = "serving" /\ installResult # "none" /\ HasDescriptor(installDir)) =>
        /\ sqlite_module_name \in DOMAIN installed_modules
        /\ installed_modules[sqlite_module_name] =
             ModuleInfoFromDescriptor(DescFields(installDir.files["module.json"]))

\* C10: when install succeeded and the descriptor is absent or does not parse,
\* the registry entry at the end of startup has all-default fields with name
\* "sqlite", and the run went on to the dynamic load.
C10_DefaultsWhenNoDescriptor ==
    (pc = "serving" /\ installResult = "true" /\ ~HasDescriptor(installDir)) =>
        /\ sqlite_module_name \in DOMAIN installed_modules
        /\ installed_modules[sqlite_module_name] = ModuleInfoFromDescriptor(NoFiles)
        /\ "load" \in Range(stages)

\* The run loaded a main.py of the given kind and has finished.
LoadedKind(kind) ==
    /\ pc = "serving"
    /\ "load" \in Range(stages)
    /\ EntryPoint(installDir) = kind

C12_LoadExceptionLeavesUnbound ==
    (LoadedKind("execraise") \/ LoadedKind("initraise")) => ~bound

\* C15 as stated: the stages of a run are performed in the order fetch,
\* install, metadata, load, each at most once; install only after the fetcher
\* returned a path, metadata only after install returned True, and the dynamic
\* load only after the metadata stage.
C15_LoadOnlyAfterMetadata ==
    "load" \in Range(stages) => "metadata" \in Range(stages)

StageOrder == <<"fetch", "install", "metadata", "load">>

StageIndex(st) == CHOOSE i \in 1..Len(StageOrder) : StageOrder[i] = st

\* C15 amended: the stages of a run are performed in the order fetch, install,
\* metadata, load, each at most once; install only after the fetcher returned
\* a path and metadata only after install returned True.  The dynamic load
\* comes last, and is attempted also in a run that skipped the metadata stage.
C15_StagesInOrder ==
    /\ \A i, j \in 1..Len(stages) : i < j => StageIndex(stages[i]) < StageIndex(stages[j])
    /\ "install" \in Range(stages) => (fetchResult = "path" /\ "fetch" \in Range(stages))
    /\ "metadata" \in Range(stages) => (installResult = "true" /\ "install" \in Range(stages))

\* C15's case: a run fetched, installed and, the install having returned
\* False, went on to the dynamic load without the metadata stage.
C15_Witness ==
    /\ pc = "serving"
    /\ stages = <<"fetch", "install", "load">>
    /\ installResult = "false"

\* The run that has just ended and the one before it both ended at the yield,
\* with the same answer of the fetcher and no I/O fault in the installer, and
\* started alike: the second in the same process as the first, or both in a
\* new process.
SecondRunAlike ==
    /\ pc = "serving"
    /\ prev.ended = "serving"
    /\ (prev.how = "rerun" \/ prev.fresh)
    /\ prev.fetch = fetchResult
    /\ ~prev.faulty
    /\ installFault.kind = "none"

\* C14: two startup runs in succession over an unchanged remote branch (same
\* answer of the fetcher, no I/O fault, both runs reaching the yield, the
\* second in the same process or both in a new one) leave the
\* same install directory and the same registry entries after the second run
\* as after the first.
C14_SecondRunChangesNothing ==
    SecondRunAlike =>
        /\ installDir = prev.dir
        /\ installed_modules = prev.reg

\* C14's case: both runs fetched and installed, and the second one found the
\* directory and the registry entry the first one had made.
C14_Witness ==
    /\ SecondRunAlike
    /\ stages = <<"fetch", "install", "load">>
    /\ installDir.exists
    /\ sqlite_module_name \in DOMAIN prev.reg
    /\ bound

\* C18: the fetcher never raises to its caller: every failure, that of
\* creating the working location included, comes back as the value False.
C18_FetcherNeverRaises ==
    fetcher.result \in {"none", "True", "False"}

\* C19: a call of the fetcher that returns takes the clone branch exactly
\* when no working copy existed and the pull branch exactly when one existed,
\* never both, and leaves the install directory as it found it.
C19_CloneIffNoWorkingCopy ==
    fetcher.result \in {"True", "False"} =>
        /\ fetcher.branch \in {"clone", "pull"}
        /\ fetcher.branch = "clone" <=> ~fetcher.had
        /\ fetcher.branch = "pull" <=> fetcher.had
        /\ installDir = fetcher.dest

\* C19's case: a first call cloned and a second call, finding the working
\* copy, pulled, next to an existing install directory.
C19_Witness ==
    /\ fetches = 2
    /\ fetcher.result = "True"
    /\ fetcher.branch = "pull"
    /\ fetcher.had
    /\ installDir.exists

\* The endpoints that need the storage module
DependentEndpoints ==
    {"register_admin", "register", "login_admin", "login", "get_current_admin",
     "get_current_user", "update_profile"}

\* The requests that carry no token from which a subject can be read
NoSubjectCases == {"missing", "malformed", "expired", "nosub"}

\* C13: while the storage module has not been activated (nothing was loaded,
\* or its init hook raised), every request to a dependent endpoint, with a
\* valid token where one is needed, is answered 500 "SQLite module not
\* loaded." without any function of the storage module being called.
C13_NotActivatedAnswersNotLoaded ==
    (/\ authResp.ep \in DependentEndpoints
     /\ authResp.case \notin NoSubjectCases
     /\ sqlite_module_funcs \in {None, "initraise"}) =>
        /\ authResp.status = 500
        /\ authResp.detail = "SQLite module not loaded."
        /\ ~authResp.called

\* The storage module is bound and its init hook has run.
Activated == sqlite_module_funcs \in {"ok", "ok_ver"}

\* C16: a registration, at either registration endpoint, of a username that
\* has an admin record, with the storage module activated, is answered 400,
\* create_admin is not called and the admin records stay as they were.
C16_DuplicateRegistrationRejected ==
    (/\ authResp.ep \in {"register_admin", "register"}
     /\ authResp.case = "dup"
     /\ Activated) =>
        /\ authResp.status = 400
        /\ ~authResp.created
        /\ ~authResp.changed

\* C16's case: a registration of a username that is taken has been answered.
C16_Witness ==
    /\ authResp.ep \in {"register_admin", "register"}
    /\ authResp.case = "dup"
    /\ authResp.status = 400
    /\ Activated
    /\ db # {}

\* C17: with a storage module bound and answering, a login of an unknown user
\* or with a password that does not verify, and a token-protected request
\* whose token is missing, malformed, expired, without subject, or names a
\* user without admin record, is answered 401, issues no token and changes no
\* admin record.
C17_BadCredentialsUnauthorized ==
    (/\ StoreUsable(sqlite_module_funcs)
     /\ \/ /\ authResp.ep \in {"login_admin", "login"}
           /\ authResp.case \in {"unknown", "badpw"}
        \/ /\ authResp.ep \in {"get_current_admin", "get_current_user", "update_profile"}
           /\ authResp.case \in NoSubjectCases \cup {"norecord"}) =>
        /\ authResp.status = 401
        /\ authResp.token = NoToken
        /\ ~authResp.changed

\* C17's case: a login with a wrong password for an existing admin has been
\* answered, after a token was issued to somebody.
C17_Witness ==
    /\ StoreUsable(sqlite_module_funcs)
    /\ authResp.ep \in {"login_admin", "login"}
    /\ authResp.case = "badpw"
    /\ authResp.status = 401
    /\ issued # {}

\* C20: once startup has finished, no request to an endpoint changes the
\* registry.
C20_RequestsLeaveRegistry ==
    [][pc = "serving" => installed_modules' = installed_modules]_vars

\* C20's case: with a module in the registry, a module query, a registration
\* and a profile update have been answered.
C20_Witness ==
    /\ pc = "serving"
    /\ sqlite_module_name \in DOMAIN installed_modules
    /\ response.status = 404
    /\ authResp.ep = "update_profile"
    /\ authResp.status = 200
    /\ authResp.changed

\* C21: what a call of the fetcher prints does not depend on the value of
\* MODULES_REPO_TOKEN: the same call with only the token changed prints the
\* same lines, on success and on clone/pull failure alike.
C21_OutputIndependentOfToken ==
    fetcher.result # "none" => fetcher.printed = fetcher.printed_other

\* C22: no two admin records share a username, whatever registrations and
\* profile updates have been answered: a registration adds a record only for
\* a username no record had, and a rename never produces a second record of
\* a name.
C22_UsernamesUnique ==
    /\ \A r1, r2 \in db : r1.username = r2.username => r1 = r2
    /\ (authResp.ep \in {"register_admin", "register"} /\ authResp.changed) =>
          authResp.case = "new"

\* C22's case: two admins are registered and a profile update that asked for
\* the name of the other one has been refused.
C22_Witness ==
    /\ Cardinality(db) = 2
    /\ authResp.ep = "update_profile"
    /\ authResp.status = 400
    /\ StoreUsable(sqlite_module_funcs)

\* C23: a request that presents an access token and is authenticated acts as
\* the admin account that obtained the token, never as another account.
C23_TokenActsForItsOwner ==
    (/\ authResp.ep \in {"get_current_admin", "get_current_user", "update_profile"}
     /\ authResp.acted # 0) =>
        authResp.acted = authResp.owner

====
